---- MODULE Spec2Model ----
(***************************************************************************)
(* Model of core/src/util/input_output.rs of check-if-email-exists:        *)
(*   - CheckEmailInput, its Default, new() and its setters;                *)
(*   - SmtpSecurity::to_client_security;                                   *)
(*   - CheckEmailOutput, its Default and its custom Serialize;             *)
(*   - the SMTP prober that reads retries and skipped_domains (its code    *)
(*     lives in crate::smtp; it is modelled from section 4.3 of the        *)
(*     specification).                                                     *)
(*                                                                         *)
(* Conventions.  Option<T> is a sequence: None is <<>>, Some(x) is <<x>>.  *)
(* A Duration is its number of seconds.  A string whose content is         *)
(* inspected (a host name, a skip-list entry) is a sequence of characters; *)
(* so is a server reply or an error message; a string that is only stored *)
(* is a TLA+ string.                                                       *)
(***************************************************************************)
EXTENDS Integers, Sequences, FiniteSets, TLC

VARIABLES
    input,      \* the CheckEmailInput being built / used
    prev,       \* the CheckEmailInput before the last mutator call
    lastCall,   \* the last mutator call: <<>> or <<[op, field, arg]>>
    lastSet,    \* per field: <<>> if never set, else <<value last set>>
    calls,      \* number of mutator calls made so far
    security,   \* <<>> or <<[mode, tls_params, policy]>>: last to_client_security
    output,     \* the CheckEmailOutput
    json,       \* <<>> or <<serialized output>>
    opc,        \* origin of the output record: default / assembled
    pc,         \* position of the check: config / skipcheck / connect / dialogue / done
    hosts,      \* ordered candidate mail-exchanger hosts of the check
    attempts,   \* per check: sequence of attempt outcomes on the current host
    active,     \* number of connections currently open
    connected,  \* set of hosts a connection was ever opened to
    result      \* <<>> or <<outcome of the dialogue>>

cfgVars == <<input, prev, lastCall, lastSet, calls, security>>
outVars == <<output, json, opc>>
probeVars == <<pc, hosts, attempts, active, connected, result>>
vars == <<input, prev, lastCall, lastSet, calls, security,
          output, json, opc, pc, hosts, attempts, active, connected, result>>

(***************************************************************************)
(* Bounds of the model.                                                    *)
(***************************************************************************)
MaxCalls == 3
MaxRetries == 2
MaxHostLen == 2

None == <<>>
Some(x) == <<x>>

(***************************************************************************)
(* Input values the actions draw from.                                     *)
(***************************************************************************)
Emails == {"foo@bar.com", "someone@yahoo.com"}
FromEmails == {"me@corp.io", "user@example.org"}
HelloNames == {"corp.io", "localhost"}
ProxyHosts == {"127.0.0.1"}
ProxyPorts == {0, 1080}
ProxyCreds == {None, Some("secret")}
Proxies == [host : ProxyHosts, port : ProxyPorts,
            username : ProxyCreds, password : ProxyCreds]
SmtpPorts == {0, 587}
Durations == {1, 30}
ApiKeys == {None, Some("key")}
Endpoints == {None, Some("http://localhost:4444")}
RetriesArgs == 0 .. MaxRetries
TlsParams == {"tlsA", "tlsB"}

Chars == {"a", "."}
SkipLists ==
    { <<>>,
      << <<>> >>,
      << <<".", "a">> >>,
      << <<"a", "a">>, <<".">> >> }
RECURSIVE StrsUpTo(_)
StrsUpTo(n) ==
    IF n = 0 THEN {<<>>}
    ELSE LET S == StrsUpTo(n - 1)
         IN  S \cup {Append(s, c) : s \in {t \in S : Len(t) = n - 1}, c \in Chars}

(***************************************************************************)
(* SmtpSecurity and its conversion to the SMTP client's ClientSecurity.    *)
(***************************************************************************)
SmtpSecurity == {"None", "Opportunistic", "Required", "Wrapper"}

SmtpSecurity_default == "Opportunistic"

to_client_security_dropping_required(self, tls_params) ==
    CASE self = "None" -> [policy |-> "None", tls |-> None]
      [] self = "Opportunistic" -> [policy |-> "Opportunistic", tls |-> Some(tls_params)]
      [] self = "Required" -> [policy |-> "Opportunistic", tls |-> Some(tls_params)]
      [] self = "Wrapper" -> [policy |-> "Wrapper", tls |-> Some(tls_params)]

to_client_security(self, tls_params) ==
    CASE self = "None" -> [policy |-> "None", tls |-> None]
      [] self = "Opportunistic" -> [policy |-> "Opportunistic", tls |-> Some(tls_params)]
      [] self = "Required" -> [policy |-> "Required", tls |-> Some(tls_params)]
      [] self = "Wrapper" -> [policy |-> "Wrapper", tls |-> Some(tls_params)]

(***************************************************************************)
(* CheckEmailInputProxy and its Default.                                   *)
(***************************************************************************)
CheckEmailInputProxy_default ==
    [host |-> "", port |-> 0, username |-> None, password |-> None]

(***************************************************************************)
(* CheckEmailInput: Default and new.                                       *)
(***************************************************************************)
Fields == {"to_email", "from_email", "hello_name", "proxy", "smtp_port",
           "smtp_timeout", "yahoo_use_api", "gmail_use_api",
           "microsoft365_use_api", "check_gravatar", "haveibeenpwned_api_key",
           "hotmail_use_headless", "retries", "smtp_security", "skipped_domains"}

DefaultSkippedDomains ==
    << <<".", "b", "l", "u", "e", "w", "i", "n", ".", "c", "h", ".">>,
       <<"b", "l", "u", "e", "w", "i", "n", "-", "c", "h", ".">>,
       <<".", "g", "m", "x", ".", "n", "e", "t", ".">>,
       <<".", "m", "a", "i", "l", ".", "i", "c", "l", "o", "u", "d", ".", "c", "o", "m", ".">>,
       <<".", "w", "e", "b", ".", "d", "e", ".">>,
       <<".", "z", "o", "h", "o", ".", "c", "o", "m", ".">> >>

CheckEmailInput_default ==
    [to_email |-> "",
     from_email |-> "reacher.email@gmail.com",
     hello_name |-> "gmail.com",
     hotmail_use_headless |-> None,
     proxy |-> None,
     smtp_port |-> 25,
     smtp_security |-> SmtpSecurity_default,
     smtp_timeout |-> Some(12),
     yahoo_use_api |-> TRUE,
     gmail_use_api |-> FALSE,
     microsoft365_use_api |-> FALSE,
     check_gravatar |-> FALSE,
     haveibeenpwned_api_key |-> None,
     retries |-> 2,
     skipped_domains |-> DefaultSkippedDomains]

new_keeping_default_to_email(to_email) == CheckEmailInput_default

new(to_email) == [CheckEmailInput_default EXCEPT !.to_email = to_email]

(***************************************************************************)
(* The mutators of CheckEmailInput, deprecated aliases included.           *)
(***************************************************************************)
from_email_writing_hello_name(self, email) == [self EXCEPT !.hello_name = email]

from_email(self, email) == [self EXCEPT !.from_email = email]

set_from_email(self, email) == [self EXCEPT !.from_email = email]

hello_name(self, name) == [self EXCEPT !.hello_name = name]

set_hello_name(self, name) == [self EXCEPT !.hello_name = name]

proxy(self, proxy_host, proxy_port) ==
    [self EXCEPT !.proxy =
        Some([CheckEmailInputProxy_default EXCEPT !.host = proxy_host,
                                                  !.port = proxy_port])]

set_proxy(self, p) == [self EXCEPT !.proxy = Some(p)]

set_retries_resetting_port(self, n) == [self EXCEPT !.retries = n, !.smtp_port = 25]

set_retries_off_by_one(self, n) == [self EXCEPT !.retries = n + 1]

set_retries(self, n) == [self EXCEPT !.retries = n]

smtp_timeout(self, duration) == [self EXCEPT !.smtp_timeout = Some(duration)]

set_smtp_port(self, port) == [self EXCEPT !.smtp_port = port]

set_smtp_security(self, smtp_security) == [self EXCEPT !.smtp_security = smtp_security]

set_smtp_timeout(self, duration) == [self EXCEPT !.smtp_timeout = duration]

yahoo_use_api(self, use_api) == [self EXCEPT !.yahoo_use_api = use_api]

set_yahoo_use_api(self, use_api) == [self EXCEPT !.yahoo_use_api = use_api]

set_gmail_use_api(self, use_api) == [self EXCEPT !.gmail_use_api = use_api]

set_microsoft365_use_api(self, use_api) == [self EXCEPT !.microsoft365_use_api = use_api]

set_check_gravatar(self, check_gravatar) == [self EXCEPT !.check_gravatar = check_gravatar]

set_haveibeenpwned_api_key(self, api_key) ==
    [self EXCEPT !.haveibeenpwned_api_key = api_key]

set_hotmail_use_headless(self, use_headless) ==
    [self EXCEPT !.hotmail_use_headless = use_headless]

set_skipped_domains_ignoring_argument(self, domains) == self

set_skipped_domains(self, domains) == [self EXCEPT !.skipped_domains = domains]

(***************************************************************************)
(* Configuration state machine: one action per mutator.  Every mutator is  *)
(* a plain assignment that always succeeds; the wrapper Call records the   *)
(* call (operation, field written, value given) beside the new state.  A   *)
(* configuration is only mutated before a check starts (pc = "config").    *)
(***************************************************************************)
Unset == [f \in Fields |-> None]

Call(op, field, value, after) ==
    /\ pc = "config"
    /\ calls < MaxCalls
    /\ input' = after
    /\ prev' = input
    /\ lastCall' = Some([op |-> op, field |-> field, arg |-> Some(value)])
    /\ lastSet' = [lastSet EXCEPT ![field] = Some(value)]
    /\ calls' = calls + 1
    /\ UNCHANGED security

FromEmail ==
    \E e \in FromEmails : Call("from_email", "from_email", e, from_email(input, e))

SetFromEmail ==
    \E e \in FromEmails : Call("set_from_email", "from_email", e, set_from_email(input, e))

HelloName ==
    \E n \in HelloNames : Call("hello_name", "hello_name", n, hello_name(input, n))

SetHelloName ==
    \E n \in HelloNames : Call("set_hello_name", "hello_name", n, set_hello_name(input, n))

Proxy ==
    \E h \in ProxyHosts, p \in ProxyPorts :
        Call("proxy", "proxy",
             Some([host |-> h, port |-> p, username |-> None, password |-> None]),
             proxy(input, h, p))

SetProxy ==
    \E p \in Proxies : Call("set_proxy", "proxy", Some(p), set_proxy(input, p))

SetRetries ==
    \E n \in RetriesArgs : Call("set_retries", "retries", n, set_retries(input, n))

SmtpTimeout ==
    \E d \in Durations :
        Call("smtp_timeout", "smtp_timeout", Some(d), smtp_timeout(input, d))

SetSmtpPort ==
    \E p \in SmtpPorts : Call("set_smtp_port", "smtp_port", p, set_smtp_port(input, p))

SetSmtpSecurity ==
    \E m \in SmtpSecurity :
        Call("set_smtp_security", "smtp_security", m, set_smtp_security(input, m))

SetSmtpTimeout ==
    \E d \in {None} \cup {Some(x) : x \in Durations} :
        Call("set_smtp_timeout", "smtp_timeout", d, set_smtp_timeout(input, d))

YahooUseApi ==
    \E b \in BOOLEAN : Call("yahoo_use_api", "yahoo_use_api", b, yahoo_use_api(input, b))

SetYahooUseApi ==
    \E b \in BOOLEAN :
        Call("set_yahoo_use_api", "yahoo_use_api", b, set_yahoo_use_api(input, b))

SetGmailUseApi ==
    \E b \in BOOLEAN :
        Call("set_gmail_use_api", "gmail_use_api", b, set_gmail_use_api(input, b))

SetMicrosoft365UseApi ==
    \E b \in BOOLEAN :
        Call("set_microsoft365_use_api", "microsoft365_use_api", b,
             set_microsoft365_use_api(input, b))

SetCheckGravatar ==
    \E b \in BOOLEAN :
        Call("set_check_gravatar", "check_gravatar", b, set_check_gravatar(input, b))

SetHaveibeenpwnedApiKey ==
    \E k \in ApiKeys :
        Call("set_haveibeenpwned_api_key", "haveibeenpwned_api_key", k,
             set_haveibeenpwned_api_key(input, k))

SetHotmailUseHeadless ==
    \E e \in Endpoints :
        Call("set_hotmail_use_headless", "hotmail_use_headless", e,
             set_hotmail_use_headless(input, e))

SetSkippedDomains ==
    \E d \in SkipLists :
        Call("set_skipped_domains", "skipped_domains", d, set_skipped_domains(input, d))

\* SmtpSecurity::to_client_security applied to the configured mode.
ToClientSecurity ==
    \E t \in TlsParams :
        /\ pc = "config"
        /\ calls < MaxCalls
        /\ security' = Some([mode |-> input.smtp_security, tls_params |-> t,
                             policy |-> to_client_security(input.smtp_security, t)])
        /\ calls' = calls + 1
        /\ UNCHANGED <<input, prev, lastCall, lastSet>>

InitInput ==
    /\ \E e \in Emails : input = new(e) /\ prev = new(e)
    /\ lastCall = None
    /\ lastSet = Unset
    /\ calls = 0
    /\ security = None

(***************************************************************************)
(* Text helpers.  contains(h, n) is Rust's str::contains on character      *)
(* sequences: n occurs in h as a contiguous run (the empty n always does). *)
(* to_lowercase maps the upper-case letters the replies use.               *)
(***************************************************************************)
contains(h, n) ==
    \E i \in 0 .. (Len(h) - Len(n)) :
        \A j \in 1 .. Len(n) : h[i + j] = n[j]

lower_char(c) ==
    CASE c = "B" -> "b" [] c = "C" -> "c" [] c = "I" -> "i" [] c = "P" -> "p"
      [] OTHER -> c

to_lowercase(s) == [i \in 1 .. Len(s) |-> lower_char(s[i])]

(***************************************************************************)
(* Sub-check payloads and errors.  A Result is [tag |-> "Ok", val |-> t]   *)
(* or [tag |-> "Err", val |-> e]; an error is its kind, the severity of    *)
(* the server reply (SmtpError only) and its text.                         *)
(***************************************************************************)
Ok(t) == [tag |-> "Ok", val |-> t]
Err(e) == [tag |-> "Err", val |-> e]

MiscDetails_default ==
    [is_disposable |-> FALSE, is_role_account |-> FALSE,
     gravatar_url |-> None, haveibeenpwned |-> None]

MxDetails_default == [accepts_mail |-> FALSE, records |-> <<>>]

SmtpDetails_default ==
    [can_connect_smtp |-> FALSE, has_full_inbox |-> FALSE, is_catch_all |-> FALSE,
     is_deliverable |-> FALSE, is_disabled |-> FALSE]

SyntaxDetails_default ==
    [address |-> None, domain |-> "", is_valid_syntax |-> FALSE, username |-> "",
     normalized_email |-> None, suggestion |-> None]

Reachable == {"Safe", "Risky", "Invalid", "Unknown"}

TxtBlacklist == <<"b", "l", "a", "c", "k", "l", "i", "s", "t">>
TxtRdns ==
    <<"C", "l", "i", "e", "n", "t", " ", "h", "o", "s", "t", " ", "r", "e", "j", "e", "c", "t", "e", "d", ":", " ", "c", "a", "n", "n", "o", "t", " ", "f", "i", "n", "d", " ", "y", "o", "u", "r", " ", "r", "e", "v", "e", "r", "s", "e", " ", "h", "o", "s", "t", "n", "a", "m", "e">>
TxtFoobar == <<"f", "o", "o", "b", "a", "r">>
TxtBoth ==
    <<"I", "P", " ", "B", "l", "a", "c", "k", "l", "i", "s", "t", "e", "d", ";", " ", "c", "a", "n", "n", "o", "t", " ", "f", "i", "n", "d", " ", "y", "o", "u", "r", " ", "r", "e", "v", "e", "r", "s", "e", " ", "h", "o", "s", "t", "n", "a", "m", "e">>
TxtTransient == <<"t", "r", "a", "n", "s", "i", "e", "n", "t", ":", " ">>
TxtPermanent == <<"p", "e", "r", "m", "a", "n", "e", "n", "t", ":", " ">>
PatBlacklist == <<"b", "l", "a", "c", "k", "l", "i", "s", "t">>
PatRdns ==
    <<"c", "a", "n", "n", "o", "t", " ", "f", "i", "n", "d", " ", "y", "o", "u", "r", " ", "r", "e", "v", "e", "r", "s", "e", " ", "h", "o", "s", "t", "n", "a", "m", "e">>

ReplyTexts == {TxtBlacklist, TxtRdns, TxtFoobar, TxtBoth}

\* Errors a sub-check can carry: a server reply (transient or permanent) or a
\* connection-level failure, whose text is not a server reply.
Errors ==
    [type : {"SmtpError"}, severity : {"transient", "permanent"}, text : ReplyTexts]
    \cup [type : {"TimeoutError"}, severity : {"none"}, text : {TxtBlacklist, TxtFoobar}]

(***************************************************************************)
(* Response classifier (SmtpError::get_description): the ordered pattern   *)
(* list, first match wins, case-insensitive; only a server reply is        *)
(* classified.                                                             *)
(***************************************************************************)
Patterns ==
    << [pattern |-> PatBlacklist, cause |-> "IpBlacklisted"],
       [pattern |-> PatRdns, cause |-> "NeedsRDNS"] >>

classify(text) ==
    LET low == to_lowercase(text)
        hits == {i \in DOMAIN Patterns : contains(low, Patterns[i].pattern)}
    IN  IF hits = {} THEN None
        ELSE Some(Patterns[CHOOSE i \in hits : \A k \in hits : i <= k].cause)

get_description(error) ==
    IF error.type = "SmtpError" THEN classify(error.text) ELSE None

(***************************************************************************)
(* JSON values: <<"str", s>>, <<"bool", b>>, <<"null">>, <<"arr", items>>, *)
(* <<"obj", entries>> with entries a sequence of <<key, value>>, in the    *)
(* order the serializer emits them.                                        *)
(***************************************************************************)
JStr(s) == <<"str", s>>
JBool(b) == <<"bool", b>>
JNull == <<"null">>
JArr(items) == <<"arr", items>>
JObj(entries) == <<"obj", entries>>
JOpt(o) == IF o = None THEN JNull ELSE JStr(o[1])

Reachable_serialize(r) ==
    CASE r = "Safe" -> JStr("safe") [] r = "Risky" -> JStr("risky")
      [] r = "Invalid" -> JStr("invalid") [] r = "Unknown" -> JStr("unknown")

MiscDetails_serialize(t) ==
    JObj(<< <<"is_disposable", JBool(t.is_disposable)>>,
            <<"is_role_account", JBool(t.is_role_account)>>,
            <<"gravatar_url", JOpt(t.gravatar_url)>>,
            <<"haveibeenpwned", JOpt(t.haveibeenpwned)>> >>)

MxDetails_serialize(t) ==
    JObj(<< <<"accepts_mail", JBool(t.accepts_mail)>>,
            <<"records", JArr(t.records)>> >>)

SmtpDetails_serialize(t) ==
    JObj(<< <<"can_connect_smtp", JBool(t.can_connect_smtp)>>,
            <<"has_full_inbox", JBool(t.has_full_inbox)>>,
            <<"is_catch_all", JBool(t.is_catch_all)>>,
            <<"is_deliverable", JBool(t.is_deliverable)>>,
            <<"is_disabled", JBool(t.is_disabled)>> >>)

SyntaxDetails_serialize(t) ==
    JObj(<< <<"address", JOpt(t.address)>>,
            <<"domain", JStr(t.domain)>>,
            <<"is_valid_syntax", JBool(t.is_valid_syntax)>>,
            <<"username", JStr(t.username)>>,
            <<"normalized_email", JOpt(t.normalized_email)>>,
            <<"suggestion", JOpt(t.suggestion)>> >>)

\* The error's own serialization: {"type": kind, "message": display text}.
Error_display(e) ==
    CASE e.severity = "transient" -> TxtTransient \o e.text
      [] e.severity = "permanent" -> TxtPermanent \o e.text
      [] OTHER -> e.text

Error_serialize(e) ==
    JObj(<< <<"type", JStr(e.type)>>, <<"message", JStr(Error_display(e))>> >>)

\* struct MyError { error, #[serde(skip_serializing_if = "Option::is_none")]
\* description }.
MyError_serialize_emitting_null(error, description) ==
    JObj(<< <<"error", Error_serialize(error)>>,
            <<"description", JOpt(description)>> >>)

MyError_serialize(error, description) ==
    JObj(<< <<"error", Error_serialize(error)>> >>
         \o (IF description = None THEN <<>>
             ELSE << <<"description", JStr(description[1])>> >>))

(***************************************************************************)
(* CheckEmailOutput: Default and the custom Serialize.                     *)
(***************************************************************************)
CheckEmailOutput_default_with_failed_smtp ==
    [input |-> "",
     is_reachable |-> "Unknown",
     misc |-> Ok(MiscDetails_default),
     mx |-> Ok(MxDetails_default),
     smtp |-> Err([type |-> "TimeoutError", severity |-> "none", text |-> TxtFoobar]),
     syntax |-> SyntaxDetails_default]

CheckEmailOutput_default ==
    [input |-> "",
     is_reachable |-> "Unknown",
     misc |-> Ok(MiscDetails_default),
     mx |-> Ok(MxDetails_default),
     smtp |-> Ok(SmtpDetails_default),
     syntax |-> SyntaxDetails_default]

serialize_dropping_failed_mx(self) ==
    JObj(<< <<"input", JStr(self.input)>>,
            <<"is_reachable", Reachable_serialize(self.is_reachable)>>,
            <<"misc", IF self.misc.tag = "Ok" THEN MiscDetails_serialize(self.misc.val)
                      ELSE MyError_serialize(self.misc.val, None)>> >>
         \o (IF self.mx.tag = "Ok"
             THEN << <<"mx", MxDetails_serialize(self.mx.val)>> >> ELSE <<>>)
         \o << <<"smtp", IF self.smtp.tag = "Ok" THEN SmtpDetails_serialize(self.smtp.val)
                      ELSE MyError_serialize(self.smtp.val,
                                             get_description(self.smtp.val))>>,
            <<"syntax", SyntaxDetails_serialize(self.syntax)>> >>)

serialize(self) ==
    JObj(<< <<"input", JStr(self.input)>>,
            <<"is_reachable", Reachable_serialize(self.is_reachable)>>,
            <<"misc", IF self.misc.tag = "Ok" THEN MiscDetails_serialize(self.misc.val)
                      ELSE MyError_serialize(self.misc.val, None)>>,
            <<"mx", IF self.mx.tag = "Ok" THEN MxDetails_serialize(self.mx.val)
                    ELSE MyError_serialize(self.mx.val, None)>>,
            <<"smtp", IF self.smtp.tag = "Ok" THEN SmtpDetails_serialize(self.smtp.val)
                      ELSE MyError_serialize(self.smtp.val,
                                             get_description(self.smtp.val))>>,
            <<"syntax", SyntaxDetails_serialize(self.syntax)>> >>)

(***************************************************************************)
(* Output state machine: a record starts as the Default, may be assembled  *)
(* from the sub-check results (all fields are public), and is serialized.  *)
(***************************************************************************)
Inputs == {"", "foo"}

Outputs ==
    [input : Inputs,
     is_reachable : Reachable,
     misc : {Ok(MiscDetails_default)} \cup {Err(e) : e \in Errors},
     mx : {Ok(MxDetails_default)} \cup {Err(e) : e \in Errors},
     smtp : {Ok(SmtpDetails_default)} \cup {Err(e) : e \in Errors},
     syntax : {SyntaxDetails_default}]

InitOutput ==
    /\ output = CheckEmailOutput_default
    /\ json = None
    /\ opc = "default"

Assemble ==
    /\ opc = "default"
    /\ json = None
    /\ \E o \in Outputs : output' = o
    /\ opc' = "assembled"
    /\ UNCHANGED json

Serialize ==
    /\ json = None
    /\ json' = Some(serialize(output))
    /\ UNCHANGED <<output, opc>>

(***************************************************************************)
(* Protocol prober / retry orchestrator (section 4.3 of the specification; *)
(* its code is in crate::smtp).  One check: the skip-list test on the      *)
(* candidate host before any connection, then at most retries + 1          *)
(* sequential dialogue attempts.                                           *)
(***************************************************************************)
ZohoHost == <<"m", "x", ".", "z", "o", "h", "o", ".", "c", "o", "m", ".">>
BackupHost == <<"m", "x", "2", ".", "b", ".">>

Hosts == (StrsUpTo(MaxHostLen) \ {<<>>}) \cup {ZohoHost}
HostLists == {<<h>> : h \in Hosts} \cup {<<h, BackupHost>> : h \in Hosts}

Outcomes == {"success", "permanent", "transient", "transport"}

\* Step 1: the host string contains any skip-list entry.
is_skipped(cfg, host) ==
    \E i \in DOMAIN cfg.skipped_domains : contains(host, cfg.skipped_domains[i])

\* Steps 5-6: only a transport-level or transient-negative outcome is retried,
\* and only while attempts remain (made counts the attempts made so far).
should_retry(cfg, made, outcome) ==
    /\ outcome \in {"transient", "transport"}
    /\ made <= cfg.retries

InitProber ==
    /\ pc = "config"
    /\ hosts = <<>>
    /\ attempts = <<>>
    /\ active = 0
    /\ connected = {}
    /\ result = None

StartCheck ==
    /\ pc = "config"
    /\ \E hs \in HostLists : hosts' = hs
    /\ pc' = "skipcheck"
    /\ UNCHANGED <<attempts, active, connected, result>>

SkipCheck ==
    /\ pc = "skipcheck"
    /\ IF is_skipped(input, Head(hosts))
       THEN result' = Some("skipped") /\ pc' = "done"
       ELSE result' = result /\ pc' = "connect"
    /\ UNCHANGED <<hosts, attempts, active, connected>>

Connect ==
    /\ pc = "connect"
    /\ active' = active + 1
    /\ connected' = connected \cup {Head(hosts)}
    /\ pc' = "dialogue"
    /\ UNCHANGED <<hosts, attempts, result>>

Reply ==
    /\ pc = "dialogue"
    /\ \E o \in Outcomes :
        /\ attempts' = Append(attempts, o)
        /\ active' = active - 1
        /\ IF should_retry(input, Len(attempts) + 1, o)
           THEN result' = result /\ pc' = "connect"
           ELSE result' = Some(o) /\ pc' = "done"
    /\ UNCHANGED <<hosts, connected>>

(***************************************************************************)
(* Specifications.                                                         *)
(***************************************************************************)
Init == InitInput /\ InitOutput /\ InitProber

\* Building a configuration and deriving the client security policy.
Next ==
    \/ FromEmail /\ UNCHANGED <<outVars, probeVars>>
    \/ SetFromEmail /\ UNCHANGED <<outVars, probeVars>>
    \/ HelloName /\ UNCHANGED <<outVars, probeVars>>
    \/ SetHelloName /\ UNCHANGED <<outVars, probeVars>>
    \/ Proxy /\ UNCHANGED <<outVars, probeVars>>
    \/ SetProxy /\ UNCHANGED <<outVars, probeVars>>
    \/ SetRetries /\ UNCHANGED <<outVars, probeVars>>
    \/ SmtpTimeout /\ UNCHANGED <<outVars, probeVars>>
    \/ SetSmtpPort /\ UNCHANGED <<outVars, probeVars>>
    \/ SetSmtpSecurity /\ UNCHANGED <<outVars, probeVars>>
    \/ SetSmtpTimeout /\ UNCHANGED <<outVars, probeVars>>
    \/ YahooUseApi /\ UNCHANGED <<outVars, probeVars>>
    \/ SetYahooUseApi /\ UNCHANGED <<outVars, probeVars>>
    \/ SetGmailUseApi /\ UNCHANGED <<outVars, probeVars>>
    \/ SetMicrosoft365UseApi /\ UNCHANGED <<outVars, probeVars>>
    \/ SetCheckGravatar /\ UNCHANGED <<outVars, probeVars>>
    \/ SetHaveibeenpwnedApiKey /\ UNCHANGED <<outVars, probeVars>>
    \/ SetHotmailUseHeadless /\ UNCHANGED <<outVars, probeVars>>
    \/ SetSkippedDomains /\ UNCHANGED <<outVars, probeVars>>
    \/ ToClientSecurity /\ UNCHANGED <<outVars, probeVars>>

Spec == Init /\ [][Next]_vars

\* Assembling and serializing an output record.
NextOutput ==
    \/ Assemble /\ UNCHANGED <<cfgVars, probeVars>>
    \/ Serialize /\ UNCHANGED <<cfgVars, probeVars>>

SpecOutput == Init /\ [][NextOutput]_vars

\* Configuring retries and the skip-list, then running one check.
NextProber ==
    \/ SetRetries /\ UNCHANGED <<outVars, probeVars>>
    \/ SetSkippedDomains /\ UNCHANGED <<outVars, probeVars>>
    \/ StartCheck /\ UNCHANGED <<cfgVars, outVars>>
    \/ SkipCheck /\ UNCHANGED <<cfgVars, outVars>>
    \/ Connect /\ UNCHANGED <<cfgVars, outVars>>
    \/ Reply /\ UNCHANGED <<cfgVars, outVars>>

SpecProber == Init /\ [][NextProber]_vars

(***************************************************************************)
(* Helpers of the properties.                                              *)
(***************************************************************************)
Keys(obj) == [i \in DOMAIN obj[2] |-> obj[2][i][1]]

HasKey(v, k) == v[1] = "obj" /\ \E i \in DOMAIN v[2] : v[2][i][1] = k

Get(obj, k) == obj[2][CHOOSE i \in DOMAIN obj[2] : obj[2][i][1] = k][2]

RECURSIVE HasKeyDeep(_, _)
HasKeyDeep(v, k) ==
    CASE v[1] = "obj" ->
            \E i \in DOMAIN v[2] : v[2][i][1] = k \/ HasKeyDeep(v[2][i][2], k)
      [] v[1] = "arr" -> \E i \in DOMAIN v[2] : HasKeyDeep(v[2][i], k)
      [] OTHER -> FALSE

TransientReply(text) == Err([type |-> "SmtpError", severity |-> "transient", text |-> text])

\* The skip-list and the retries the caller configured: the last value given
\* to the setter, or the default.
ConfiguredSkipList ==
    IF lastSet.skipped_domains = None THEN DefaultSkippedDomains
    ELSE lastSet.skipped_domains[1]

ConfiguredRetries == IF lastSet.retries = None THEN 2 ELSE lastSet.retries[1]

OnSkipList(host) ==
    \E i \in DOMAIN ConfiguredSkipList : contains(host, ConfiguredSkipList[i])

(***************************************************************************)
(* C1.  A serialized record holds a "description" entry only directly     *)
(* inside the smtp error object, exactly when smtp failed and its error    *)
(* has a diagnostic cause, and then as the cause's name (never null):      *)
(* "blacklist" gives IpBlacklisted, "cannot find your reverse hostname"    *)
(* gives NeedsRDNS, "foobar" gives no entry.  The misc, mx and syntax      *)
(* entries never hold one, whatever their error.                           *)
(***************************************************************************)
C1_DescriptionOnlyOnSmtpError ==
    json # None =>
        LET top == json[1]
            smtp == Get(top, "smtp")
        IN  /\ ~HasKey(top, "description")
            /\ \A k \in {"input", "is_reachable", "misc", "mx", "syntax"} :
                    ~HasKeyDeep(Get(top, k), "description")
            /\ HasKey(smtp, "description") <=>
                    (output.smtp.tag = "Err" /\ get_description(output.smtp.val) # None)
            /\ HasKey(smtp, "description") =>
                    /\ HasKey(smtp, "error")
                    /\ ~HasKeyDeep(Get(smtp, "error"), "description")
                    /\ Get(smtp, "description") # JNull
                    /\ Get(smtp, "description")
                           = JStr(get_description(output.smtp.val)[1])
            /\ output.smtp = TransientReply(TxtBlacklist) =>
                    HasKey(smtp, "description")
                    /\ Get(smtp, "description") = JStr("IpBlacklisted")
            /\ output.smtp = TransientReply(TxtRdns) =>
                    HasKey(smtp, "description")
                    /\ Get(smtp, "description") = JStr("NeedsRDNS")
            /\ output.smtp = TransientReply(TxtFoobar) =>
                    HasKey(smtp, "error") /\ ~HasKey(smtp, "description")

\* A record whose smtp and mx errors are the same classifiable reply.
C1_Witness ==
    /\ json # None
    /\ output.smtp = TransientReply(TxtBlacklist)
    /\ output.mx = TransientReply(TxtBlacklist)
    /\ output.misc = TransientReply(TxtRdns)

(***************************************************************************)
(* C2.  new(to_email) with no setter called: to_email is the argument and  *)
(* every other field holds its default; no field is missing.               *)
(***************************************************************************)
C2_NewAppliesEveryDefault ==
    calls = 0 =>
        /\ DOMAIN input = Fields
        /\ \E e \in Emails :
            input = [to_email |-> e,
                     from_email |-> "reacher.email@gmail.com",
                     hello_name |-> "gmail.com",
                     proxy |-> None,
                     smtp_port |-> 25,
                     smtp_timeout |-> Some(12),
                     retries |-> 2,
                     smtp_security |-> "Opportunistic",
                     yahoo_use_api |-> TRUE,
                     gmail_use_api |-> FALSE,
                     microsoft365_use_api |-> FALSE,
                     hotmail_use_headless |-> None,
                     check_gravatar |-> FALSE,
                     haveibeenpwned_api_key |-> None,
                     skipped_domains |-> input.skipped_domains]
        /\ Len(input.skipped_domains) > 0
        /\ \A i \in DOMAIN input.skipped_domains : Len(input.skipped_domains[i]) > 0

C2_Witness == calls = 0 /\ input.to_email = "foo@bar.com"

(***************************************************************************)
(* C3 as stated: the serialized record has exactly the top-level entries   *)
(* input, verdict, misc, mx, smtp, syntax, in that order.                  *)
(***************************************************************************)
C3_Original_KeysWithVerdict ==
    json # None =>
        Keys(json[1]) = <<"input", "verdict", "misc", "mx", "smtp", "syntax">>

(***************************************************************************)
(* C3 as amended: whichever sub-checks failed, the serialized record has   *)
(* exactly six top-level entries, keyed input, is_reachable (the verdict), *)
(* misc, mx, smtp, syntax, each once and in that order.                    *)
(***************************************************************************)
C3_SixEntriesInOrder ==
    json # None =>
        /\ json[1][1] = "obj"
        /\ Keys(json[1]) = <<"input", "is_reachable", "misc", "mx", "smtp", "syntax">>
        /\ Get(json[1], "input") = JStr(output.input)
        /\ Get(json[1], "is_reachable") \in
                {JStr("safe"), JStr("risky"), JStr("invalid"), JStr("unknown")}

C3_Witness ==
    /\ json # None
    /\ output.misc.tag = "Err"
    /\ output.mx.tag = "Err"
    /\ output.smtp.tag = "Err"

(***************************************************************************)
(* C4.  A host whose name contains an entry of the configured skip-list is *)
(* never connected to, whatever retries is; its dialogue is reported as    *)
(* skipped, with no attempt made.                                          *)
(***************************************************************************)
C4_SkippedHostNeverConnected ==
    /\ \A h \in connected : ~OnSkipList(h)
    /\ (hosts # <<>> /\ OnSkipList(Head(hosts))) =>
            /\ pc \in {"skipcheck", "done"}
            /\ attempts = <<>>
            /\ active = 0
            /\ pc = "done" => result = Some("skipped")

C4_Witness ==
    /\ pc = "done"
    /\ result = Some("skipped")
    /\ lastSet.skipped_domains # None
    /\ lastSet.retries = Some(MaxRetries)
    /\ Len(hosts) = 2

(***************************************************************************)
(* C5.  With retries = N, at most N + 1 attempts are made against a host,  *)
(* at most one connection is open at a time, and a successful or           *)
(* permanently-negative reply is always the last attempt.                  *)
(***************************************************************************)
C5_AtMostRetriesPlusOneAttempts ==
    /\ Len(attempts) <= ConfiguredRetries + 1
    /\ active \in {0, 1}
    /\ pc = "dialogue" <=> active = 1
    /\ \A i \in DOMAIN attempts :
            attempts[i] \in {"success", "permanent"} =>
                i = Len(attempts) /\ pc = "done" /\ result = Some(attempts[i])
    /\ (pc = "done" /\ result # Some("skipped")) =>
            /\ attempts # <<>>
            /\ result = Some(attempts[Len(attempts)])
            /\ attempts[Len(attempts)] \in {"transient", "transport"} =>
                    Len(attempts) = ConfiguredRetries + 1

C5_Witness ==
    /\ lastSet.retries = Some(0)
    /\ pc = "done"
    /\ attempts = <<"transient">>

(***************************************************************************)
(* C6.  Unless set, the MAIL FROM address is user@example.org and the EHLO *)
(* name is localhost, as the documentation of from_email, set_from_email,  *)
(* hello_name and set_hello_name states.  Default gives                    *)
(* reacher.email@gmail.com and gmail.com instead.                          *)
(***************************************************************************)
C6_Original_DocCommentDefaults ==
    /\ lastSet.from_email = None => input.from_email = "user@example.org"
    /\ lastSet.hello_name = None => input.hello_name = "localhost"

(***************************************************************************)
(* C7.  A mutator writes the value it is given, whatever it is, to the one *)
(* field it names and leaves every other field as it was; so each field    *)
(* holds the value of the last call for it, or its default (to_email: the  *)
(* argument of new) if there was none.                                     *)
(***************************************************************************)
C7_SettersWriteOneField ==
    /\ lastCall # None =>
            /\ \A f \in Fields \ {lastCall[1].field} : input[f] = prev[f]
            /\ input[lastCall[1].field] = lastCall[1].arg[1]
    /\ \A f \in Fields \ {"to_email"} :
            input[f] = IF lastSet[f] = None THEN CheckEmailInput_default[f]
                       ELSE lastSet[f][1]
    /\ lastSet.to_email = None /\ input.to_email \in Emails

C7_Witness ==
    /\ lastSet.retries = Some(0)
    /\ lastSet.smtp_timeout = Some(None)
    /\ lastSet.skipped_domains = Some(<<>>)
    /\ input.retries = 0
    /\ input.smtp_timeout = None
    /\ input.skipped_domains = <<>>

(***************************************************************************)
(* C8.  From any configuration, each deprecated mutator gives the state    *)
(* its renamed one gives: from_email, hello_name, yahoo_use_api as the     *)
(* set_ form; smtp_timeout(d) as set_smtp_timeout(Some(d)); proxy(h, p) as *)
(* set_proxy of h, p without credentials, whatever credentials were set.   *)
(***************************************************************************)
C8_DeprecatedAliasesAgree ==
    /\ \A e \in FromEmails : from_email(input, e) = set_from_email(input, e)
    /\ \A n \in HelloNames : hello_name(input, n) = set_hello_name(input, n)
    /\ \A b \in BOOLEAN : yahoo_use_api(input, b) = set_yahoo_use_api(input, b)
    /\ \A d \in Durations : smtp_timeout(input, d) = set_smtp_timeout(input, Some(d))
    /\ \A h \in ProxyHosts, p \in ProxyPorts :
            proxy(input, h, p)
                = set_proxy(input, [host |-> h, port |-> p,
                                    username |-> None, password |-> None])
    /\ (lastCall # None /\ lastCall[1].op = "proxy") =>
            /\ input.proxy # None
            /\ input.proxy[1].username = None
            /\ input.proxy[1].password = None

C8_Witness ==
    /\ lastCall # None
    /\ lastCall[1].op = "proxy"
    /\ prev.proxy # None
    /\ prev.proxy[1].username # None
    /\ prev.proxy[1].password # None

(***************************************************************************)
(* C9.  The mode alone selects the client policy: None gives the no-TLS    *)
(* policy without the TLS parameters; Opportunistic, Required and Wrapper  *)
(* give the policy of the same name with the parameters given; different   *)
(* modes give different policies; the mode is Opportunistic unless set.    *)
(***************************************************************************)
C9_ModeSelectsPolicy ==
    /\ lastSet.smtp_security = None => input.smtp_security = "Opportunistic"
    /\ security # None =>
            /\ security[1].mode = "None" =>
                    security[1].policy = [policy |-> "None", tls |-> None]
            /\ security[1].mode # "None" =>
                    security[1].policy = [policy |-> security[1].mode,
                                          tls |-> Some(security[1].tls_params)]
    /\ \A m1, m2 \in SmtpSecurity, t1, t2 \in TlsParams :
            m1 # m2 => to_client_security(m1, t1).policy
                            # to_client_security(m2, t2).policy

C9_Witness ==
    /\ security # None
    /\ security[1].mode = "Required"
    /\ security[1].policy.tls = Some("tlsB")

(***************************************************************************)
(* C10.  The default output record has an empty input, the verdict         *)
(* Unknown and misc, mx, smtp all in their default success state; its      *)
(* serialization carries that verdict and no error object and no           *)
(* description anywhere.                                                   *)
(***************************************************************************)
C10_DefaultOutputIsUnknownWithoutError ==
    opc = "default" =>
        /\ output.input = ""
        /\ output.is_reachable = "Unknown"
        /\ output.misc = Ok(MiscDetails_default)
        /\ output.mx = Ok(MxDetails_default)
        /\ output.smtp = Ok(SmtpDetails_default)
        /\ json # None =>
                /\ Get(json[1], "is_reachable") = JStr("unknown")
                /\ Get(json[1], "input") = JStr("")
                /\ ~HasKeyDeep(json[1], "error")
                /\ ~HasKeyDeep(json[1], "description")

C10_Witness == opc = "default" /\ json # None

====
